---------------------------- MODULE Spec2Model ----------------------------
(***************************************************************************)
(* Resume-Analyzer, backend/main.py: the document-analysis pipeline        *)
(* (extract_skills, extract_section_by_header, is_contact_info, the three  *)
(* category extractors, score_resume, analyze_resume).                     *)
(*                                                                         *)
(* A Python str is modelled as a sequence of characters, each character a  *)
(* one-character string.  NL is the line break and Bullet stands for the   *)
(* single character U+2022.                                                *)
(***************************************************************************)
EXTENDS Integers, Sequences, FiniteSets, TLC

VARIABLES
  pc,               \* position inside the call that is being modelled
  text,             \* the text handed to analyze_resume / extract_section_by_header
  skills,           \* analyze_resume: local `skills`
  education,        \* analyze_resume: local `education`
  experience,       \* analyze_resume: local `experience`
  certifications,   \* analyze_resume: local `certifications`
  recommendations,  \* analyze_resume: local `recommendations`
  score,            \* analyze_resume: local `score`
  issues,           \* analyze_resume: local `issues`
  result,           \* <<>> until analyze_resume returns, then <<ResumeAnalysis>>
  call,             \* extract_section_by_header: index of the (header, next_headers) pair
  section,          \* extract_section_by_header: the returned list
  line,             \* is_contact_info: its argument
  contact           \* is_contact_info: truth value of what it returns

vars == << pc, text, skills, education, experience, certifications,
           recommendations, score, issues, result, call, section, line, contact >>

NL == "\n"
Bullet == "bullet"

----------------------------------------------------------------------------
(* Bounds of the explored inputs. *)

MaxLines == 3
MaxSectionLines == 6
MaxLineTokens == 4
MaxSkills == 12

----------------------------------------------------------------------------
(* Program literals. *)

SkillList ==
  << <<"p","y","t","h","o","n">>,
     <<"j","a","v","a">>,
     <<"c","+","+">>,
     <<"m","a","c","h","i","n","e"," ","l","e","a","r","n","i","n","g">>,
     <<"d","a","t","a"," ","a","n","a","l","y","s","i","s">>,
     <<"c","s","s">>,
     <<"j","a","v","a","s","c","r","i","p","t">>,
     <<"n","o","d","e",".","j","s">>,
     <<"h","t","m","l">>,
     <<"s","q","l">>,
     <<"g","i","t">>,
     <<"g","i","t","h","u","b">>,
     <<"r","e","a","c","t">>,
     <<"a","n","g","u","l","a","r">>,
     <<"d","o","c","k","e","r">>,
     <<"a","w","s">>,
     <<"a","z","u","r","e">>,
     <<"l","i","n","u","x">>,
     <<"t","e","n","s","o","r","f","l","o","w">>,
     <<"k","e","r","a","s">>,
     <<"p","a","n","d","a","s">>,
     <<"n","u","m","p","y">>,
     <<"s","c","i","k","i","t","-","l","e","a","r","n">>,
     <<"f","l","a","s","k">>,
     <<"d","j","a","n","g","o">>,
     <<"e","x","c","e","l">>,
     <<"p","o","w","e","r"," ","b","i">>,
     <<"t","a","b","l","e","a","u">>,
     <<"c","o","m","m","u","n","i","c","a","t","i","o","n">>,
     <<"l","e","a","d","e","r","s","h","i","p">>,
     <<"p","r","o","j","e","c","t"," ","m","a","n","a","g","e","m","e","n","t">> >>

degree_keywords ==
  << <<"b","a","c","h","e","l","o","r">>,
     <<"m","a","s","t","e","r">>,
     <<"p","h","d">>,
     <<"b",".","t","e","c","h">>,
     <<"m",".","t","e","c","h">>,
     <<"b",".","s","c">>,
     <<"m",".","s","c">>,
     <<"i","n","t","e","r","m","e","d","i","a","t","e">>,
     <<"g","r","a","d","e">>,
     <<"u","n","i","v","e","r","s","i","t","y">>,
     <<"c","o","l","l","e","g","e">>,
     <<"s","c","h","o","o","l">> >>

exp_keywords ==
  << <<"p","r","o","j","e","c","t">>,
     <<"d","e","v","e","l","o","p","e","d">>,
     <<"i","m","p","l","e","m","e","n","t","e","d">>,
     <<"m","a","c","h","i","n","e"," ","l","e","a","r","n","i","n","g">>,
     <<"w","e","b"," ","a","p","p">>,
     <<"d","e","s","c","r","i","p","t","i","o","n">>,
     <<"k","a","g","g","l","e">>,
     <<"i","n","t","e","r","n">>,
     <<"e","n","g","i","n","e","e","r">>,
     <<"d","e","v","e","l","o","p","e","r">>,
     <<"r","o","l","e">>,
     <<"p","o","s","i","t","i","o","n">> >>

cert_keywords ==
  << <<"c","e","r","t","i","f","i","e","d">>,
     <<"c","e","r","t","i","f","i","c","a","t","i","o","n">>,
     <<"c","e","r","t","i","f","i","c","a","t","e">>,
     <<"c","o","u","r","s","e","r","a">>,
     <<"u","d","e","m","y">>,
     <<"i","n","f","o","s","y","s">>,
     <<"e","x","a","m">>,
     <<"a","w","a","r","d">> >>

EDUCATION == <<"E","D","U","C","A","T","I","O","N">>

PROJECTS == <<"P","R","O","J","E","C","T","S">>

CERTIFICATIONS == <<"C","E","R","T","I","F","I","C","A","T","I","O","N","S">>

KEY_SKILLS_AND_TOOLS == <<"K","E","Y"," ","S","K","I","L","L","S"," ","A","N","D"," ","T","O","O","L","S">>

CAREER_OBJECTIVE == <<"C","A","R","E","E","R"," ","O","B","J","E","C","T","I","V","E">>

Linkedin == <<"l","i","n","k","e","d","i","n">>

HardcodedName == <<"a","m","b","i","t","i"," ","d","h","a","n","u","s","h"," ","r","a","j">>

RecPrefix == <<"B","a","s","e","d"," ","o","n"," ","y","o","u","r"," ","s","k","i","l","l","s"," ","i","n"," ">>

RecSuffix == <<","," ","c","o","n","s","i","d","e","r"," ","r","o","l","e","s"," ","i","n"," ","S","o","f","t","w","a","r","e"," ","D","e","v","e","l","o","p","m","e","n","t">>

CommaSpace == <<","," ">>

\* lines of the explored resume texts
BachelorLine == <<"B","a","c","h","e","l","o","r"," ","o","f"," ","T","e","c","h","n","o","l","o","g","y",","," ","X","Y","Z"," ","U","n","i","v","e","r","s","i","t","y",","," ","2","0","2","0">>

ContactLine == <<"P","r","o","j","e","c","t"," ","C","o","n","t","a","c","t",":"," ","j","o","h","n","@","e","x","a","m","p","l","e",".","c","o","m">>

DevelopedLine == <<Bullet," ","D","e","v","e","l","o","p","e","d"," ","P","y","t","h","o","n"," ","a","p","p">>

GraduatedLine == <<"G","r","a","d","u","a","t","e","d"," ","2","0","2","0",","," ","G","i","t","H","u","b">>

LiteralYearLine == <<"2","0","\\","d","d">>

CertPhoneLine == <<Bullet," ","A","W","S"," ","C","e","r","t","i","f","i","e","d",","," ","+","9","1"," ","9","8","7","6","5","-","4","3","2","1","0">>

SKILL_SET == { SkillList[i] : i \in 1..Len(SkillList) }

----------------------------------------------------------------------------
(* str primitives. *)

UpperCase == << "A","B","C","D","E","F","G","H","I","J","K","L","M",
                "N","O","P","Q","R","S","T","U","V","W","X","Y","Z" >>
LowerCase == << "a","b","c","d","e","f","g","h","i","j","k","l","m",
                "n","o","p","q","r","s","t","u","v","w","x","y","z" >>
LowerOf == [ c \in { UpperCase[i] : i \in 1..26 } |->
               LowerCase[CHOOSE i \in 1..26 : UpperCase[i] = c] ]
Digits == { "0","1","2","3","4","5","6","7","8","9" }
Whitespace == { " ", NL }

LowerChar(c) == IF c \in DOMAIN LowerOf THEN LowerOf[c] ELSE c

\* s.lower()
Lower(s) == [ i \in 1..Len(s) |-> LowerChar(s[i]) ]

\* sub in s
Contains(s, sub) ==
  \E i \in 0..(Len(s) - Len(sub)) : \A k \in 1..Len(sub) : s[i + k] = sub[k]

\* s[a-1 : b] for 1-based a, b
Slice(s, a, b) == [ i \in 1..(b - a + 1) |-> s[a + i - 1] ]

\* s.strip()
Strip(s) ==
  LET keep == { i \in 1..Len(s) : s[i] \notin Whitespace }
  IN IF keep = {} THEN << >>
     ELSE Slice(s, CHOOSE i \in keep : \A j \in keep : i <= j,
                   CHOOSE i \in keep : \A j \in keep : j <= i)

\* s.lstrip(c)
LStrip(s, c) ==
  LET keep == { i \in 1..Len(s) : s[i] # c }
  IN IF keep = {} THEN << >>
     ELSE Slice(s, CHOOSE i \in keep : \A j \in keep : i <= j, Len(s))

\* s.splitlines(): the pieces between line breaks, no empty piece after a final one
RECURSIVE SplitLinesFrom(_, _)
SplitLinesFrom(s, p) ==
  IF p > Len(s) THEN << >>
  ELSE LET nl == { j \in p..Len(s) : s[j] = NL }
       IN IF nl = {} THEN << Slice(s, p, Len(s)) >>
          ELSE LET j == CHOOSE j \in nl : \A k \in nl : j <= k
               IN << Slice(s, p, j - 1) >> \o SplitLinesFrom(s, j + 1)

SplitLines(s) == SplitLinesFrom(s, 1)

\* sep.join(parts)
RECURSIVE Join(_, _)
Join(parts, sep) ==
  IF Len(parts) = 0 THEN << >>
  ELSE IF Len(parts) = 1 THEN parts[1]
  ELSE parts[1] \o sep \o Join(Tail(parts), sep)

\* [x for x in s if P(x)] 
RECURSIVE SelectSeqOf(_, _)
SelectSeqOf(s, keep) ==
  IF Len(s) = 0 THEN << >>
  ELSE (IF keep[1] THEN << s[1] >> ELSE << >>)
       \o SelectSeqOf(Tail(s), Tail(keep))

\* any(word in s for word in words)
AnyIn(words, s) == \E w \in 1..Len(words) : Contains(s, words[w])

----------------------------------------------------------------------------
(* extract_section_by_header: re.search of                                 *)
(*   {header}\s*\n(?:.*\n){0,3}(.*?)(\n(?:{'|'.join(next_headers)})|$)     *)
(* under re.DOTALL | re.IGNORECASE.  Positions are 1-based indexes of the  *)
(* next character to read; Len(text)+1 is the end of the text.             *)

\* a literal of the pattern at position p, re.IGNORECASE
LiteralAt(s, p, lit) ==
  /\ p + Len(lit) - 1 <= Len(s)
  /\ \A k \in 1..Len(lit) : LowerChar(s[p + k - 1]) = LowerChar(lit[k])

\* (\n(?:h1|h2|...)|$) at position q; $ (no re.MULTILINE) is the end of the
\* text or the place before a final line break.  With no next_headers the
\* alternation is empty and the first branch is a bare line break.
TerminatorAt(s, q, next_headers) ==
  \/ /\ q <= Len(s)
     /\ s[q] = NL
     /\ \/ Len(next_headers) = 0
        \/ \E h \in 1..Len(next_headers) : LiteralAt(s, q + 1, next_headers[h])
  \/ q = Len(s) + 1
  \/ q = Len(s) /\ s[q] = NL

\* (.*?) from position p: lazy, so the capture ends at the first position
\* where the rest of the pattern matches.  The end of the text always does.
CaptureFrom(s, p, next_headers) ==
  LET q == CHOOSE q \in p..(Len(s) + 1) :
             /\ TerminatorAt(s, q, next_headers)
             /\ \A r \in p..(q - 1) : ~TerminatorAt(s, r, next_headers)
  IN Slice(s, p, q - 1)

\* (?:.*\n){0,n} from position p: greedy, and under re.DOTALL the dot also
\* matches a line break, so one repetition runs to the LAST line break left
\* in the text.  The rest of the pattern matches from every position
\* (CaptureFrom), so the engine never backtracks to a shorter repetition.
RECURSIVE SkipFiller(_, _, _, _)
SkipFiller(s, p, n, next_headers) ==
  LET nl == { j \in p..Len(s) : s[j] = NL }
  IN IF n = 0 \/ nl = {} THEN CaptureFrom(s, p, next_headers)
     ELSE SkipFiller(s, (CHOOSE j \in nl : \A k \in nl : k <= j) + 1,
                     n - 1, next_headers)

\* {header}\s*\n at position i: \s* is greedy over the whitespace run after
\* the header and backs off to the last line break of that run.  The value
\* is the position after that line break, 0 when there is none.
HeaderEnd(s, i, header) ==
  IF ~LiteralAt(s, i, header) THEN 0
  ELSE LET a == i + Len(header)
           run == { j \in a..Len(s) : \A k \in a..j : s[k] \in Whitespace }
           nl == { j \in run : s[j] = NL }
       IN IF nl = {} THEN 0
          ELSE (CHOOSE j \in nl : \A k \in nl : k <= j) + 1

MaxFiller == 3

\* match.group(1) of the leftmost match, as << group1 >>; << >> for no match
SearchSection(s, header, next_headers) ==
  LET starts == { i \in 1..Len(s) : HeaderEnd(s, i, header) # 0 }
  IN IF starts = {} THEN << >>
     ELSE LET i == CHOOSE i \in starts : \A j \in starts : i <= j
          IN << SkipFiller(s, HeaderEnd(s, i, header), MaxFiller, next_headers) >>

extract_section_by_header(s, header, next_headers) ==
  LET match == SearchSection(s, header, next_headers)
  IN IF match = << >> THEN << >>
     ELSE LET section_text == Strip(match[1])
              stripped == LET raw == SplitLines(section_text)
                          IN [ i \in 1..Len(raw) |-> Strip(raw[i]) ]
          IN SelectSeqOf(stripped, [ i \in 1..Len(stripped) |-> stripped[i] # << >> ])

----------------------------------------------------------------------------
(* is_contact_info *)

PhoneMin == 7

\* the quantifier written {6,}: one character too few
DigitRunAtSix(s, i) ==
  /\ i + PhoneMin - 1 <= Len(s)
  /\ s[i] \in Digits
  /\ \A k \in 1..(PhoneMin - 1) : s[i + k] \in Digits \cup { "-", " " }

\* \d[\d\- ]{7,} at position i
DigitRunAt(s, i) ==
  /\ i + PhoneMin <= Len(s)
  /\ s[i] \in Digits
  /\ \A k \in 1..PhoneMin : s[i + k] \in Digits \cup { "-", " " }

\* re.search(r'\+?\d[\d\- ]{7,}', s)
PhoneSearch(s) ==
  \E i \in 1..Len(s) : \/ s[i] = "+" /\ DigitRunAt(s, i + 1)
                       \/ DigitRunAt(s, i)

is_contact_info(l) ==
  LET line_lower == Lower(l)
  IN \/ Contains(line_lower, << "@" >>)
     \/ Contains(line_lower, Linkedin)
     \/ PhoneSearch(line_lower)
     \/ Contains(line_lower, HardcodedName)

----------------------------------------------------------------------------
(* The category extractors. *)

\* the pattern with a single backslash, (19|20)\d{2}: a real four-digit year
YearSearchDigits(l) ==
  \E i \in 1..(Len(l) - 3) :
    /\ << l[i], l[i + 1] >> \in { << "1", "9" >>, << "2", "0" >> }
    /\ l[i + 2] \in Digits
    /\ l[i + 3] \in Digits

\* re.search(r"(19|20)\\d{2}", l): in the raw string \\ is an escaped
\* backslash, so the pattern is 19 or 20, a backslash, and the letter d twice
YearSearch(l) ==
  \/ Contains(l, << "1", "9", "\\", "d", "d" >>)
  \/ Contains(l, << "2", "0", "\\", "d", "d" >>)

EducationHeaders == << CERTIFICATIONS, PROJECTS, KEY_SKILLS_AND_TOOLS, CAREER_OBJECTIVE >>
ExperienceHeaders == << EDUCATION, CERTIFICATIONS, KEY_SKILLS_AND_TOOLS, CAREER_OBJECTIVE >>
CertificationHeaders == << EDUCATION, PROJECTS, KEY_SKILLS_AND_TOOLS, CAREER_OBJECTIVE >>

EducationKeeps(l) ==
  /\ ~is_contact_info(l)
  /\ AnyIn(degree_keywords, Lower(l)) \/ YearSearch(l)

extract_education(s) ==
  LET lines == extract_section_by_header(s, EDUCATION, EducationHeaders)
      kept == SelectSeqOf(lines, [ i \in 1..Len(lines) |-> EducationKeeps(lines[i]) ])
  IN [ i \in 1..Len(kept) |-> Strip(kept[i]) ]

\* the loop without its is_contact_info test
ExperienceKeepsContact(l) == AnyIn(exp_keywords, Lower(l)) \/ YearSearch(l)

ExperienceKeeps(l) ==
  /\ ~is_contact_info(l)
  /\ AnyIn(exp_keywords, Lower(l)) \/ YearSearch(l)

extract_experience(s) ==
  LET lines == extract_section_by_header(s, PROJECTS, ExperienceHeaders)
      kept == SelectSeqOf(lines, [ i \in 1..Len(lines) |-> ExperienceKeeps(lines[i]) ])
  IN [ i \in 1..Len(kept) |-> Strip(LStrip(kept[i], Bullet)) ]

CertificationKeeps(l) ==
  /\ ~is_contact_info(l)
  /\ AnyIn(cert_keywords, Lower(l))

extract_certifications(s) ==
  LET lines == extract_section_by_header(s, CERTIFICATIONS, CertificationHeaders)
      kept == SelectSeqOf(lines, [ i \in 1..Len(lines) |-> CertificationKeeps(lines[i]) ])
  IN [ i \in 1..Len(kept) |-> Strip(LStrip(kept[i], Bullet)) ]

----------------------------------------------------------------------------
(* extract_skills *)

\* the test without text.lower()
SkillMatchesCaseSensitive(s) == { skill \in SKILL_SET : Contains(s, Lower(skill)) }

\* the terms the loop appends
SkillMatches(s) ==
  LET text_lower == Lower(s)
  IN { skill \in SKILL_SET : Contains(text_lower, Lower(skill)) }

\* SKILL_SET is a Python set: the loop visits it in an order the hash seed of
\* the process decides, so found_skills is the matches in any one order
Orderings(S) ==
  { f \in [ 1..Cardinality(S) -> S ] :
      \A i, j \in 1..Cardinality(S) : i # j => f[i] # f[j] }

----------------------------------------------------------------------------
(* score_resume *)

PointsPerSkill == 8
MaxCountedSkills == 10
SectionPoints == 5
SkillFloor == 60
MaxScore == 100

Min(a, b) == IF a < b THEN a ELSE b

\* the skill points without the cap of ten counted skills
ScoreTotalUncapped(sk, edu, exper, cert) ==
  Len(sk) * PointsPerSkill
    + (IF edu # << >> THEN SectionPoints ELSE 0)
    + (IF exper # << >> THEN SectionPoints ELSE 0)
    + (IF cert # << >> THEN SectionPoints ELSE 0)

ScoreTotal(sk, edu, exper, cert) ==
  Min(Len(sk), MaxCountedSkills) * PointsPerSkill
    + (IF edu # << >> THEN SectionPoints ELSE 0)
    + (IF exper # << >> THEN SectionPoints ELSE 0)
    + (IF cert # << >> THEN SectionPoints ELSE 0)

\* the floor rule left out
ScoreFloorMissing(total, sk) == total

ScoreFloor(total, sk) ==
  IF total < SkillFloor /\ sk # << >> THEN SkillFloor ELSE total

\* the returned pair (score, issues)
score_resume(sk, edu, exper, cert) ==
  << Min(ScoreFloor(ScoreTotal(sk, edu, exper, cert), sk), MaxScore), << >> >>

----------------------------------------------------------------------------
(* analyze_resume *)

\* skills[:3]
FirstThree == 3
Prefix(s, n) == [ i \in 1..Min(n, Len(s)) |-> s[i] ]

Recommendation(sk) == RecPrefix \o Join(Prefix(sk, FirstThree), CommaSpace) \o RecSuffix

\* the recommendation naming every skill instead of skills[:3]
recommendAll(sk) ==
  IF Len(sk) > 0 THEN << RecPrefix \o Join(sk, CommaSpace) \o RecSuffix >> ELSE << >>

recommend(sk) == IF Len(sk) > 0 THEN << Recommendation(sk) >> ELSE << >>

----------------------------------------------------------------------------
(* Inputs. *)

\* every sequence of at most n elements of 1..k
UpTo(n, k) == UNION { [ 1..m -> 1..k ] : m \in 0..n }

\* the concatenation of the chosen pieces
RECURSIVE Concat(_)
Concat(parts) == IF Len(parts) = 0 THEN << >> ELSE parts[1] \o Concat(Tail(parts))

\* lines a resume text is put together from
DocLines ==
  << EDUCATION, PROJECTS, CERTIFICATIONS, BachelorLine, ContactLine,
     DevelopedLine, GraduatedLine, LiteralYearLine, CertPhoneLine >>

\* texts of at most MaxLines lines, with or without a final line break
Documents ==
  { Join([ i \in 1..Len(f) |-> DocLines[f[i]] ], << NL >>) \o tail :
      f \in UpTo(MaxLines, Len(DocLines)), tail \in { << >>, << NL >> } }

\* lines a text handed to extract_section_by_header is put together from
SectionLines == << EDUCATION, PROJECTS, << "a" >>, << " ", "b", " " >>, << >> >>

SectionTexts ==
  { Join([ i \in 1..Len(f) |-> SectionLines[f[i]] ], << NL >>) :
      f \in UpTo(MaxSectionLines, Len(SectionLines)) }

\* the three calls of extract_section_by_header the program makes
SectionCalls ==
  << [ header |-> EDUCATION, next_headers |-> EducationHeaders ],
     [ header |-> PROJECTS, next_headers |-> ExperienceHeaders ],
     [ header |-> CERTIFICATIONS, next_headers |-> CertificationHeaders ] >>

LineTokens ==
  << << "1" >>, << "2", "3", "4", "5", "6" >>, << "-", " ", "-" >>,
     << "+" >>, << "a" >>, << " " >>, << "@" >> >>

ContactLines ==
  { Concat([ i \in 1..Len(f) |-> LineTokens[f[i]] ]) :
      f \in UpTo(MaxLineTokens, Len(LineTokens)) }

CategoryLists == { << >>, << BachelorLine >>, << BachelorLine, GraduatedLine >> }

----------------------------------------------------------------------------
(* analyze_resume, one step per statement. *)

Idle ==
  /\ skills = << >> /\ education = << >> /\ experience = << >>
  /\ certifications = << >> /\ recommendations = << >>
  /\ score = 0 /\ issues = << >> /\ result = << >>
  /\ call = 0 /\ section = << >> /\ line = << >> /\ contact = FALSE

Init ==
  /\ pc = "extract_skills"
  /\ text \in Documents
  /\ Idle

ExtractSkills ==
  /\ pc = "extract_skills"
  /\ skills' \in Orderings(SkillMatches(text))
  /\ pc' = "extract_education"
  /\ UNCHANGED << text, education, experience, certifications, recommendations,
                  score, issues, result, call, section, line, contact >>

ExtractEducation ==
  /\ pc = "extract_education"
  /\ education' = extract_education(text)
  /\ pc' = "extract_experience"
  /\ UNCHANGED << text, skills, experience, certifications, recommendations,
                  score, issues, result, call, section, line, contact >>

ExtractExperience ==
  /\ pc = "extract_experience"
  /\ experience' = extract_experience(text)
  /\ pc' = "extract_certifications"
  /\ UNCHANGED << text, skills, education, certifications, recommendations,
                  score, issues, result, call, section, line, contact >>

ExtractCertifications ==
  /\ pc = "extract_certifications"
  /\ certifications' = extract_certifications(text)
  /\ pc' = "recommend"
  /\ UNCHANGED << text, skills, education, experience, recommendations,
                  score, issues, result, call, section, line, contact >>

Recommend ==
  /\ pc = "recommend"
  /\ recommendations' = recommend(skills)
  /\ pc' = "score_resume"
  /\ UNCHANGED << text, skills, education, experience, certifications,
                  score, issues, result, call, section, line, contact >>

ScoreResume ==
  /\ pc = "score_resume"
  /\ LET r == score_resume(skills, education, experience, certifications)
     IN score' = r[1] /\ issues' = r[2]
  /\ pc' = "return"
  /\ UNCHANGED << text, skills, education, experience, certifications,
                  recommendations, result, call, section, line, contact >>

Return ==
  /\ pc = "return"
  /\ result' = << [ skills |-> skills, education |-> education,
                    experience |-> experience, certifications |-> certifications,
                    recommendations |-> recommendations, score |-> score,
                    issues |-> issues ] >>
  /\ pc' = "done"
  /\ UNCHANGED << text, skills, education, experience, certifications,
                  recommendations, score, issues, call, section, line, contact >>

Next ==
  \/ ExtractSkills
  \/ ExtractEducation
  \/ ExtractExperience
  \/ ExtractCertifications
  \/ Recommend
  \/ ScoreResume
  \/ Return

Spec == Init /\ [][Next]_vars

----------------------------------------------------------------------------
(* extract_section_by_header called on its own. *)

SectionInit ==
  /\ pc = "section"
  /\ text \in SectionTexts
  /\ call \in 1..Len(SectionCalls)
  /\ skills = << >> /\ education = << >> /\ experience = << >>
  /\ certifications = << >> /\ recommendations = << >>
  /\ score = 0 /\ issues = << >> /\ result = << >>
  /\ section = << >> /\ line = << >> /\ contact = FALSE

ExtractSection ==
  /\ pc = "section"
  /\ section' = extract_section_by_header(text, SectionCalls[call].header,
                                          SectionCalls[call].next_headers)
  /\ pc' = "done"
  /\ UNCHANGED << text, skills, education, experience, certifications,
                  recommendations, score, issues, result, call, line, contact >>

SectionNext == ExtractSection

SpecSection == SectionInit /\ [][SectionNext]_vars

----------------------------------------------------------------------------
(* is_contact_info called on its own. *)

ContactInit ==
  /\ pc = "contact"
  /\ line \in ContactLines
  /\ text = << >> /\ call = 0 /\ section = << >> /\ contact = FALSE
  /\ skills = << >> /\ education = << >> /\ experience = << >>
  /\ certifications = << >> /\ recommendations = << >>
  /\ score = 0 /\ issues = << >> /\ result = << >>

IsContactInfo ==
  /\ pc = "contact"
  /\ contact' = is_contact_info(line)
  /\ pc' = "done"
  /\ UNCHANGED << text, skills, education, experience, certifications,
                  recommendations, score, issues, result, call, section, line >>

ContactNext == IsContactInfo

SpecContact == ContactInit /\ [][ContactNext]_vars

----------------------------------------------------------------------------
(* score_resume called on its own. *)

ScoreInit ==
  /\ pc = "score_resume"
  /\ \E n \in 0..MaxSkills : skills = Prefix(SkillList, n)
  /\ education \in CategoryLists
  /\ experience \in CategoryLists
  /\ certifications \in CategoryLists
  /\ text = << >> /\ call = 0 /\ section = << >> /\ line = << >> /\ contact = FALSE
  /\ recommendations = << >> /\ score = 0 /\ issues = << >> /\ result = << >>

ScoreNext == ScoreResume

SpecScore == ScoreInit /\ [][ScoreNext]_vars

----------------------------------------------------------------------------
(* Properties. *)

Range(s) == { s[i] : i \in 1..Len(s) }

\* C1: the score analyze_resume returns is an integer in [0,100], and it is at
\* least 60 whenever the returned skills list is non-empty.
C1_ScoreRange ==
  pc = "done" =>
    /\ result[1].score \in 0..100
    /\ result[1].skills # << >> => result[1].score >= 60

\* a text with skills worth fewer than 60 points, lifted to 60
C1_Witness ==
  /\ pc = "done"
  /\ Len(result[1].skills) = 2
  /\ result[1].education = << >>
  /\ result[1].score = 60

\* C2: score_resume returns (s, []) with t = min(len(skills),10)*8 plus 5 for
\* each non-empty category list, s = 60 if t < 60 and skills is non-empty and
\* s = min(t,100) otherwise; 12 skills are worth exactly 80 skill points.
C2_ScoreFormula ==
  pc = "return" =>
    LET counted == IF Len(skills) < 10 THEN Len(skills) ELSE 10
        bonus == 5 * Cardinality({ l \in { << 1, education >>, << 2, experience >>,
                                           << 3, certifications >> } : l[2] # << >> })
        t == counted * 8 + bonus
    IN /\ score = IF t < 60 /\ skills # << >> THEN 60
                  ELSE IF t < 100 THEN t ELSE 100
       /\ issues = << >>
       /\ Len(skills) = 12 => score = 80 + bonus

\* twelve skills and no category line: 80 points
C2_Witness ==
  /\ pc = "return"
  /\ Len(skills) = 12
  /\ education = << >> /\ experience = << >> /\ certifications = << >>
  /\ score = 80

\* C3: a vocabulary term is in the list extract_skills returns exactly when
\* its lower-cased form is a substring of the lower-cased text, and no term
\* is in the list twice.
C3_SkillsExact ==
  pc = "extract_education" =>
    /\ \A v \in SKILL_SET :
         v \in Range(skills) <=> Contains(Lower(text), Lower(v))
    /\ Range(skills) \subseteq SKILL_SET
    /\ \A i, j \in 1..Len(skills) : i # j => skills[i] # skills[j]

\* "Python" and "GitHub" are found in their lower-case vocabulary form, the
\* latter as "git" too, and "java" is not
C3_Witness ==
  /\ pc = "extract_education"
  /\ Contains(text, << "P", "y", "t", "h", "o", "n" >>)
  /\ << "p", "y", "t", "h", "o", "n" >> \in Range(skills)
  /\ << "g", "i", "t" >> \in Range(skills)
  /\ << "g", "i", "t", "h", "u", "b" >> \in Range(skills)
  /\ << "j", "a", "v", "a" >> \notin Range(skills)

\* C4: no string of the education, experience or certifications output, as
\* emitted, is flagged by is_contact_info.
C4_NoContactInfo ==
  pc = "done" =>
    \A l \in Range(result[1].education) \cup Range(result[1].experience)
             \cup Range(result[1].certifications) : ~is_contact_info(l)

\* the PROJECTS section holds "Project Contact: john@example.com", which has
\* an experience keyword, and experience does not
C4_Witness ==
  /\ pc = "done"
  /\ extract_section_by_header(text, PROJECTS, ExperienceHeaders) = << ContactLine >>
  /\ AnyIn(exp_keywords, Lower(ContactLine))
  /\ result[1].experience = << >>

\* the lines of a text, and where a header of hs starts a line
LinesOf(s) == SplitLines(s)
IsHeaderLine(l, hs) == \E h \in 1..Len(hs) : LiteralAt(l, 1, hs[h])

\* the index of the first line after line h that starts with a terminator,
\* one past the last line when there is none
FirstTerminator(ls, h, hs) ==
  LET t == { j \in (h + 1)..Len(ls) : IsHeaderLine(ls[j], hs) }
  IN IF t = {} THEN Len(ls) + 1 ELSE CHOOSE j \in t : \A k \in t : j <= k

\* the section header's line: the first line that is the header and has a
\* line after it
HeaderLines(ls, header) ==
  { h \in 1..(Len(ls) - 1) : Lower(Strip(ls[h])) = Lower(header) }
FirstHeaderLine(ls, header) ==
  CHOOSE h \in HeaderLines(ls, header) : \A k \in HeaderLines(ls, header) : h <= k

\* the non-empty trimmed lines a..b of ls, in order
TrimmedLines(ls, a, b) ==
  LET part == [ i \in 1..(b - a + 1) |-> Strip(ls[a + i - 1]) ]
  IN SelectSeqOf(part, [ i \in 1..Len(part) |-> part[i] # << >> ])

\* C5: every line extract_section_by_header returns lies between the section
\* header and the first terminator header after it.
C5_StopsAtTerminator ==
  (pc = "done" /\ HeaderLines(LinesOf(text), SectionCalls[call].header) # {}) =>
    LET ls == LinesOf(text)
        h == FirstHeaderLine(ls, SectionCalls[call].header)
        t == FirstTerminator(ls, h, SectionCalls[call].next_headers)
    IN Range(section) \subseteq Range(TrimmedLines(ls, h + 1, t - 1))

\* C6: an EDUCATION header line directly followed by a line with a degree
\* keyword that is not contact info, with no terminator header after it, puts
\* that line into the education list.
C6_EducationLineKept ==
  pc = "done" =>
    LET ls == LinesOf(text)
    IN \A h \in 1..(Len(ls) - 1) :
         ( /\ ls[h] = EDUCATION
           /\ AnyIn(degree_keywords, Lower(ls[h + 1]))
           /\ ~is_contact_info(ls[h + 1])
           /\ \A k \in (h + 1)..Len(ls) : ~IsHeaderLine(ls[k], EducationHeaders) )
         => Strip(ls[h + 1]) \in Range(result[1].education)

\* C7: recommendations is empty when skills is empty and otherwise is one
\* string naming the first min(3, len(skills)) skills joined by ", "; with no
\* skills the score is at most 15; the empty text gives empty lists and 0.
C7_Recommendations ==
  pc = "done" =>
    LET r == result[1]
        sk == r.skills
        names == IF Len(sk) = 1 THEN sk[1]
                 ELSE IF Len(sk) = 2 THEN sk[1] \o << ",", " " >> \o sk[2]
                 ELSE sk[1] \o << ",", " " >> \o sk[2] \o << ",", " " >> \o sk[3]
    IN /\ sk = << >> => r.recommendations = << >> /\ r.score <= 15
       /\ sk # << >> => r.recommendations = << RecPrefix \o names \o RecSuffix >>
       /\ text = << >> =>
            /\ sk = << >> /\ r.education = << >> /\ r.experience = << >>
            /\ r.certifications = << >> /\ r.recommendations = << >>
            /\ r.score = 0

\* four skills matched, three of them named
C7_Witness ==
  /\ pc = "done"
  /\ Len(result[1].skills) = 4
  /\ Len(result[1].recommendations) = 1
  /\ Contains(result[1].recommendations[1], result[1].skills[3])
  /\ ~Contains(result[1].recommendations[1], result[1].skills[4])

\* C8: when more than 3 lines follow the header line before the first
\* terminator or the end of the text, extract_section_by_header returns every
\* non-empty line from the 4th line after the header up to there, trimmed and
\* in order.
C8_SkipsAtMostThree ==
  (pc = "done" /\ HeaderLines(LinesOf(text), SectionCalls[call].header) # {}) =>
    LET ls == LinesOf(text)
        h == FirstHeaderLine(ls, SectionCalls[call].header)
        t == FirstTerminator(ls, h, SectionCalls[call].next_headers)
    IN t - h - 1 > 3 => section = TrimmedLines(ls, h + 4, t - 1)

\* 19 or 20, a backslash, and the letters dd
BackslashYear(l) ==
  \E i \in 1..(Len(l) - 4) :
    /\ << l[i], l[i + 1] >> \in { << "1", "9" >>, << "2", "0" >> }
    /\ << l[i + 2], l[i + 3], l[i + 4] >> = << "\\", "d", "d" >>

NoOtherContactMark(l) ==
  /\ ~Contains(Lower(l), << "@" >>)
  /\ ~Contains(Lower(l), Linkedin)
  /\ ~Contains(Lower(l), HardcodedName)

\* a stretch of digits, "-" and spaces that starts with a digit and holds n digits
DigitStretch(l, n) ==
  \E i \in 1..Len(l) : \E j \in i..Len(l) :
    /\ l[i] \in Digits
    /\ \A k \in i..j : l[k] \in Digits \cup { "-", " " }
    /\ Cardinality({ k \in i..j : l[k] \in Digits }) >= n

\* C10 as claimed: without another contact mark a line is flagged exactly when
\* it has a stretch of digits, "-" and spaces with 7 or more digits.
C10_SevenDigits ==
  (pc = "done" /\ NoOtherContactMark(line)) => (contact <=> DigitStretch(line, 7))

\* C10 as the code has it: without another contact mark a line is flagged
\* exactly when a digit is directly followed by at least 7 characters that are
\* digits, "-" or spaces; 7 consecutive digits alone are not flagged.
C10_DigitPlusSeven ==
  (pc = "done" /\ NoOtherContactMark(line)) =>
    /\ contact <=>
         \E i \in 1..(Len(line) - 7) :
           /\ line[i] \in Digits
           /\ \A k \in (i + 1)..(i + 7) : line[k] \in Digits \cup { "-", " " }
    /\ (Len(line) = 7 /\ Range(line) \subseteq Digits) => ~contact

\* exactly seven digits, not flagged
C10_Witness ==
  /\ pc = "done"
  /\ line = << "1", "2", "3", "4", "5", "6", "1" >>
  /\ ~contact

=============================================================================
